---- MODULE Spec2Model ----
(***************************************************************************)
(* A model of sweeper.py: the Field class (mine layout, cascading reveal,  *)
(* chord-clear, flags, cursor, game clock) and the Game class (menu state, *)
(* update pass, key dispatch, main loop).                                  *)
(*                                                                         *)
(* The board is scaled down from 10x10 with 10 mines; it stays square, as  *)
(* in the source.  width and height are attributes every Field is built    *)
(* with; a specification fixes them in its initial state: Spec (the whole  *)
(* Game) plays on GameSize x GameSize, SpecField (one Field object and its *)
(* methods) on FieldSize x FieldSize.  Wall-clock time (pendulum.now()) is *)
(* the integer variable now, which advances while the main loop is blocked *)
(* waiting for the next event.                                             *)
(***************************************************************************)
EXTENDS Integers, FiniteSets, Sequences, TLC

\* ---------------------------------------------------------------- bounds
GameSize == 2
FieldSize == 3
MineCount == 1
MaxFlags == 1
MaxTime == 2
\* the interpreter's limit on the depth of recursion (1000 frames against the
\* 100 cells of the real board), scaled to stay above the cells of a board here
RecursionLimit == 18

\* ------------------------------------------------------------- constants
None == -1

mine_count == MineCount

MenuNone == "None"

VARIABLES
  width, height,   \* Field.width, Field.height
  now,             \* pendulum.now(): the wall clock
  pc,              \* position of Game.play's loop
  scheduled,       \* number of Tick events scheduled in the reactor and not yet delivered
  field,           \* Game.field: 0 is None, otherwise the identity of the Field object
  menu,            \* Game.menu
  menu_opened_at,  \* Game.menu_opened_at
  row, col,        \* Field.row, Field.col
  mines,           \* Field.mines
  flagged,         \* Field.flagged
  opened,          \* Field.opened
  highlighted,     \* Field.highlighted
  chars,           \* Field.chars: what the last render() drew for each cell
  started,         \* Field.started
  ended,           \* Field.ended
  stoppage_time    \* Field.stoppage_time

fieldVars == <<row, col, mines, flagged, opened, highlighted, chars,
               started, ended, stoppage_time>>
gameVars == <<field, menu, menu_opened_at>>
dims == <<width, height>>
vars == <<width, height, now, pc, scheduled, field, menu, menu_opened_at, row, col, mines,
          flagged, opened, highlighted, chars, started, ended, stoppage_time>>

\* ------------------------------------------------------------ Field: pure

Positions == (0 .. height - 1) \X (0 .. width - 1)

Abs(x) == IF x < 0 THEN -x ELSE x

RECURSIVE init_mines(_)

\* init_mines, drawing until the set holds more than mine_count cells
init_mines_one_more(m) ==
  IF Cardinality(m) > mine_count \/ m = Positions
    THEN {m}
    ELSE UNION {init_mines(m \cup {p}) : p \in Positions \ m}

\* Field.init_mines from a set m of mines: every set the loop can end with.
\* Each pass draws a cell of the board and adds it; drawing a cell that is
\* already in the set leaves the set as it is and the loop draws again.
init_mines(m) ==
  IF Cardinality(m) >= mine_count
    THEN {m}
    ELSE UNION {init_mines(m \cup {p}) : p \in Positions \ m}

\* the mine sets Field() can be built with
MineLayouts == init_mines({})

neighbors(pos) ==
  {n \in Positions : n # pos /\ Abs(n[1] - pos[1]) <= 1 /\ Abs(n[2] - pos[2]) <= 1}

neighbor_mines(pos, mn) == Cardinality(neighbors(pos) \cap mn)

\* Field.symbol_at: 'm', an int, 'f' or 'c'; kind tells the str results from the int ones
symbol_at(pos, op, fl, mn) ==
  IF pos \in op
    THEN IF pos \in mn THEN [kind |-> "m", n |-> 0]
                       ELSE [kind |-> "int", n |-> neighbor_mines(pos, mn)]
    ELSE IF pos \in fl THEN [kind |-> "f", n |-> 0]
                       ELSE [kind |-> "c", n |-> 0]

\* Python's sym == k for an int k: a str never equals an int
SymEqInt(sym, k) == sym.kind = "int" /\ sym.n = k

\* Field.char_at: the glyph with its cursor background and its highlight colour
char_at(pos, r, c, op, fl, mn, hl) ==
  [sym |-> symbol_at(pos, op, fl, mn),
   bg  |-> (pos[1] = r /\ pos[2] = c),
   fg  |-> (pos \in hl)]

\* render, leaving highlighted as the caller set it
render_keeps_highlighted(r, c, op, fl, mn, hl) ==
  [chars |-> [pos \in Positions |-> char_at(pos, r, c, op, fl, mn, hl)],
   highlighted |-> hl]

\* Field.render: the array of glyphs, computed from highlighted as it is on
\* entry, and highlighted as the last statement of render leaves it
render(r, c, op, fl, mn, hl) ==
  [chars |-> [pos \in Positions |-> char_at(pos, r, c, op, fl, mn, hl)],
   highlighted |-> {}]

\* the bookkeeping of one run of open_at calls: the opened set, the number of
\* calls made, how many of them were on a cell already opened, how many
\* further calls those made, the deepest nesting, and whether the nesting
\* passed the interpreter's limit (RecursionError)
NoCalls(op) ==
  [opened |-> op, calls |-> 0, revisits |-> 0, redescents |-> 0, deepest |-> 0,
   overflow |-> FALSE]

RECURSIVE open_at(_, _, _, _, _)
RECURSIVE open_each(_, _, _, _, _)

\* the for loop of open_at / clear_at: open_at on each cell of S in turn
open_each(S, st, fl, mn, depth) ==
  IF S = {} \/ st.overflow THEN st
  ELSE LET n == CHOOSE x \in S : TRUE
       IN  open_each(S \ {n}, open_at(n, st, fl, mn, depth), fl, mn, depth)

\* open_at, opening the neighbours of a zero cell without descending into them
open_at_one_level(pos, st, fl, mn, depth) ==
  LET op1 == st.opened \cup {pos}
      still_closed == IF SymEqInt(symbol_at(pos, op1, fl, mn), 0)
                        THEN neighbors(pos) \ op1
                        ELSE {}
  IN  [opened |-> op1 \cup still_closed,
       calls |-> st.calls + 1,
       revisits |-> st.revisits,
       redescents |-> st.redescents,
       deepest |-> IF depth > st.deepest THEN depth ELSE st.deepest,
       overflow |-> st.overflow]

\* open_at, descending into every neighbour of a zero cell, opened or not
open_at_unguarded(pos, st, fl, mn, depth) ==
  IF depth > RecursionLimit
    THEN [st EXCEPT !.overflow = TRUE]
    ELSE LET revisit == pos \in st.opened
             op1 == st.opened \cup {pos}
             every == IF SymEqInt(symbol_at(pos, op1, fl, mn), 0)
                        THEN neighbors(pos)
                        ELSE {}
             st1 == [opened |-> op1,
                     calls |-> st.calls + 1,
                     revisits |-> st.revisits + (IF revisit THEN 1 ELSE 0),
                     redescents |-> st.redescents
                                      + (IF revisit THEN Cardinality(every) ELSE 0),
                     deepest |-> IF depth > st.deepest THEN depth ELSE st.deepest,
                     overflow |-> st.overflow]
         IN  open_each(every, st1, fl, mn, depth + 1)

\* Field.open_at, called at nesting depth: the bookkeeping after open_at(pos)
open_at(pos, st, fl, mn, depth) ==
  IF depth > RecursionLimit
    THEN [st EXCEPT !.overflow = TRUE]
    ELSE LET revisit == pos \in st.opened
             op1 == st.opened \cup {pos}
             still_closed == IF SymEqInt(symbol_at(pos, op1, fl, mn), 0)
                               THEN neighbors(pos) \ op1
                               ELSE {}
             st1 == [opened |-> op1,
                     calls |-> st.calls + 1,
                     revisits |-> st.revisits + (IF revisit THEN 1 ELSE 0),
                     redescents |-> st.redescents
                                      + (IF revisit THEN Cardinality(still_closed) ELSE 0),
                     deepest |-> IF depth > st.deepest THEN depth ELSE st.deepest,
                     overflow |-> st.overflow]
         IN  open_each(still_closed, st1, fl, mn, depth + 1)

\* clear_at, highlighting the unflagged neighbours that are already opened too
clear_at_highlights_opened(pos, op, fl, mn, hl) ==
  LET count == symbol_at(pos, op, fl, mn)
      nbflagged == neighbors(pos) \cap fl
      unflagged == neighbors(pos) \ fl
  IN  IF SymEqInt(count, Cardinality(nbflagged))
        THEN [opened |-> open_each(unflagged, NoCalls(op), fl, mn, 1).opened,
              highlighted |-> hl]
        ELSE [opened |-> op, highlighted |-> unflagged]

\* Field.clear_at: opened and highlighted when clear_at(pos) returns
clear_at(pos, op, fl, mn, hl) ==
  LET count == symbol_at(pos, op, fl, mn)
      nbflagged == neighbors(pos) \cap fl
      unflagged == neighbors(pos) \ fl
  IN  IF SymEqInt(count, Cardinality(nbflagged))
        THEN [opened |-> open_each(unflagged, NoCalls(op), fl, mn, 1).opened,
              highlighted |-> hl]
        ELSE [opened |-> op, highlighted |-> unflagged \ op]

\* Field.game_time at wall-clock time t
game_time(t) ==
  IF started # None
    THEN (IF ended # None THEN ended ELSE t) - started - stoppage_time
    ELSE 0

\* Field.lost: the value the getter returns
lost == (mines \cap opened) # {}

\* won, with the mines left out of the count
won_without_mines == Cardinality(opened) = width * height

\* Field.won: the value the getter returns
won == Cardinality(opened) + Cardinality(mines) = width * height

\* ------------------------------------------------------- Field: mutators

\* Field.__init__ (cursor at the board centre: 5, 5 on the 10 x 10 board)
StartRow == height \div 2
StartCol == width \div 2

NoChars == [pos \in {} |-> 0]

\* Field.__init__: the attributes of a new Field whose init_mines drew mn
NewField(mn) ==
  [row |-> StartRow, col |-> StartCol, mines |-> mn, flagged |-> {}, opened |-> {},
   highlighted |-> render(StartRow, StartCol, {}, {}, mn, {}).highlighted,
   chars |-> render(StartRow, StartCol, {}, {}, mn, {}).chars,
   started |-> None, ended |-> None, stoppage_time |-> 0]

\* self.field = Field(), as Game.process_event runs it on a new game
FieldInit ==
  \E mn \in MineLayouts :
    LET f == NewField(mn)
    IN  /\ row' = f.row
        /\ col' = f.col
        /\ mines' = f.mines
        /\ flagged' = f.flagged
        /\ opened' = f.opened
        /\ highlighted' = f.highlighted
        /\ chars' = f.chars
        /\ started' = f.started
        /\ ended' = f.ended
        /\ stoppage_time' = f.stoppage_time

\* Field.move, checking only the far edge of each axis
move_past_edge(drow, dcol) ==
  IF drow = 0 /\ dcol = 0
    THEN UNCHANGED fieldVars
    ELSE /\ row' = (IF row + drow < height THEN row + drow ELSE row)
         /\ col' = (IF col + dcol < height THEN col + dcol ELSE col)
         /\ chars' = render(row', col', opened, flagged, mines, highlighted).chars
         /\ highlighted' = render(row', col', opened, flagged, mines, highlighted).highlighted
         /\ UNCHANGED <<mines, flagged, opened, started, ended, stoppage_time>>

\* Field.move(drow, dcol); both axes are clamped against height, as in the source
move(drow, dcol) ==
  IF drow = 0 /\ dcol = 0
    THEN UNCHANGED fieldVars
    ELSE /\ row' = (IF 0 <= row + drow /\ row + drow < height THEN row + drow ELSE row)
         /\ col' = (IF 0 <= col + dcol /\ col + dcol < height THEN col + dcol ELSE col)
         /\ chars' = render(row', col', opened, flagged, mines, highlighted).chars
         /\ highlighted' = render(row', col', opened, flagged, mines, highlighted).highlighted
         /\ UNCHANGED <<mines, flagged, opened, started, ended, stoppage_time>>

\* Field.open
open ==
  LET pos == <<row, col>>
      res == IF pos \in opened
               THEN clear_at(pos, opened, flagged, mines, highlighted)
               ELSE [opened |-> open_at(pos, NoCalls(opened), flagged, mines, 1).opened,
                     highlighted |-> highlighted]
  IN  /\ started' = (IF started = None THEN now ELSE started)
      /\ opened' = res.opened
      /\ chars' = render(row, col, res.opened, flagged, mines, res.highlighted).chars
      /\ highlighted' = render(row, col, res.opened, flagged, mines, res.highlighted).highlighted
      /\ UNCHANGED <<row, col, mines, flagged, ended, stoppage_time>>

\* Field.flag (at most MaxFlags flags are ever placed)
flag ==
  LET pos == <<row, col>>
  IN  /\ pos \notin flagged => Cardinality(flagged) < MaxFlags
      /\ flagged' = (IF pos \in flagged THEN flagged \ {pos} ELSE flagged \cup {pos})
      /\ chars' = render(row, col, opened, flagged', mines, highlighted).chars
      /\ highlighted' = render(row, col, opened, flagged', mines, highlighted).highlighted
      /\ UNCHANGED <<row, col, mines, opened, started, ended, stoppage_time>>

\* Field.add_stoppage: the new stoppage_time
add_stoppage(stoppage) ==
  IF started # None /\ ended = None THEN stoppage_time + stoppage ELSE stoppage_time

\* ------------------------------------------------------------------ Game

Menus == {"help", "confirm_new", "won", "lost", "test"}

MoveKeys == {"<UP>", "<LEFT>", "<RIGHT>", "<DOWN>"}
\* "x" stands for every token process_event has no branch for
Keys == {"c", "h", "t", "n", "<SPACE>", "f", "x"} \cup MoveKeys

\* Game.update, the menu branch and the field branch: menu_opened_at afterwards
update_menu_opened_at ==
  IF menu # MenuNone
    THEN (IF menu_opened_at = None THEN now ELSE menu_opened_at)
    ELSE IF field # 0 THEN None ELSE menu_opened_at

\* update_stoppage_time, with the pause never charged to the field
update_stoppage_time_unpaused == stoppage_time

\* Game.update, the field branch: stoppage_time after add_stoppage
update_stoppage_time ==
  IF menu = MenuNone /\ field # 0 /\ menu_opened_at # None
    THEN add_stoppage(now - menu_opened_at)
    ELSE stoppage_time

\* update_ended, with a lost getter that reports the loss without setting ended
update_ended_won_only ==
  IF menu = MenuNone /\ field # 0 /\ ended = None
    THEN IF won THEN now ELSE ended
    ELSE ended

\* update_ended, with the win and loss tests run behind an open menu too
update_ended_behind_menu ==
  IF field # 0 /\ ended = None
    THEN IF won THEN now
         ELSE IF lost THEN now
         ELSE ended
    ELSE ended

\* update_ended, without the "not ended" tests of update and of the getters
update_ended_again ==
  IF menu = MenuNone /\ field # 0
    THEN IF won THEN now
         ELSE IF lost THEN now
         ELSE ended
    ELSE ended

\* Game.update, the field branch: ended, as the won and lost getters leave it
update_ended ==
  IF menu = MenuNone /\ field # 0 /\ ended = None
    THEN IF won THEN now
         ELSE IF lost THEN now
         ELSE ended
    ELSE ended

\* update_menu, with the win and loss tests run on an ended field too
update_menu_again ==
  IF menu = MenuNone /\ field # 0
    THEN IF won THEN "won"
         ELSE IF lost THEN "lost"
         ELSE menu
    ELSE menu

\* update_menu, with the menu named after the getter's docstring
update_menu_misnamed ==
  IF menu = MenuNone /\ field # 0 /\ ended = None
    THEN IF won THEN "we won"
         ELSE IF lost THEN "we lost"
         ELSE menu
    ELSE menu

\* Game.update, the field branch: menu after the win and loss tests
update_menu ==
  IF menu = MenuNone /\ field # 0 /\ ended = None
    THEN IF won THEN "won"
         ELSE IF lost THEN "lost"
         ELSE menu
    ELSE menu

\* Game.update
update ==
  /\ menu_opened_at' = update_menu_opened_at
  /\ stoppage_time' = update_stoppage_time
  /\ ended' = update_ended
  /\ menu' = update_menu
  /\ UNCHANGED <<field, row, col, mines, flagged, opened, highlighted, chars, started>>

\* the buffer the update pass that has just run handed to render_to_terminal,
\* read off the state it left (pc is "key" or "tick"): the menu branch ran
\* when a menu is open and menu_opened_at is set, and drew the menu over a
\* cleared main area; otherwise, with a Field, the field branch ran and drew
\* the field, even when it went on to set menu to "won" or "lost"
render_to_terminal ==
  IF menu # MenuNone /\ menu_opened_at # None
    THEN [menu |-> menu, field |-> NoChars]
    ELSE IF field # 0
      THEN [menu |-> MenuNone, field |-> chars]
      ELSE [menu |-> MenuNone, field |-> NoChars]

\* new_game_now, with any open menu taken for the confirmation
new_game_now_any_menu == field = 0 \/ ended # None \/ menu # MenuNone

\* the test of the new-game key: start a new game at once
new_game_now == field = 0 \/ ended # None \/ menu = "confirm_new"

\* Game.process_event
process_event(event) ==
  CASE event = "c" ->
         /\ menu' = (IF menu # MenuNone THEN MenuNone ELSE menu)
         /\ UNCHANGED <<field, menu_opened_at, fieldVars>>
    [] event = "h" ->
         /\ menu' = "help"
         /\ UNCHANGED <<field, menu_opened_at, fieldVars>>
    [] event = "t" ->
         /\ menu' = "test"
         /\ UNCHANGED <<field, menu_opened_at, fieldVars>>
    [] event = "n" ->
         IF new_game_now
           THEN /\ menu' = MenuNone
                /\ field' = (IF field = 1 THEN 2 ELSE 1)
                /\ FieldInit
                /\ UNCHANGED menu_opened_at
           ELSE /\ menu' = "confirm_new"
                /\ UNCHANGED <<field, menu_opened_at, fieldVars>>
    [] event = "<SPACE>" /\ field # 0 -> open /\ UNCHANGED gameVars
    [] event = "<UP>" /\ field # 0 -> move(-1, 0) /\ UNCHANGED gameVars
    [] event = "<LEFT>" /\ field # 0 -> move(0, -1) /\ UNCHANGED gameVars
    [] event = "<RIGHT>" /\ field # 0 -> move(0, 1) /\ UNCHANGED gameVars
    [] event = "<DOWN>" /\ field # 0 -> move(1, 0) /\ UNCHANGED gameVars
    [] event = "f" /\ field # 0 -> flag /\ UNCHANGED gameVars
    [] OTHER -> UNCHANGED <<gameVars, fieldVars>>

\* ------------------------------------------------------- Game.play's loop

\* Game.__init__: the first Tick is scheduled, there is no field and no menu
Init ==
  /\ width = GameSize
  /\ height = GameSize
  /\ now = 0
  /\ pc = "fetch"
  /\ scheduled = 1
  /\ field = 0
  /\ menu = MenuNone
  /\ menu_opened_at = None
  /\ row = 0
  /\ col = 0
  /\ mines = {}
  /\ flagged = {}
  /\ opened = {}
  /\ highlighted = {}
  /\ chars = NoChars
  /\ started = None
  /\ ended = None
  /\ stoppage_time = 0

\* time passes while the loop is blocked in the reactor
Elapse ==
  /\ pc = "fetch"
  /\ now < MaxTime
  /\ now' = now + 1
  /\ UNCHANGED <<dims, pc, scheduled, gameVars, fieldVars>>

\* the reactor yields the scheduled Tick; play() runs update() first
FetchTick ==
  /\ pc = "fetch"
  /\ scheduled > 0
  /\ scheduled' = scheduled - 1
  /\ update
  /\ pc' = "tick"
  /\ UNCHANGED <<dims, now>>

\* the reactor yields a key token; play() runs update() first
FetchKey ==
  /\ pc = "fetch"
  /\ update
  /\ pc' = "key"
  /\ UNCHANGED <<dims, now, scheduled>>

\* the Tick branch of play(), scheduling two Ticks for the one handled
HandleTick_schedules_two ==
  /\ pc = "tick"
  /\ scheduled' = scheduled + 2
  /\ pc' = "fetch"
  /\ UNCHANGED <<dims, now, gameVars, fieldVars>>

\* isinstance(e, Tick): the next Tick is scheduled
HandleTick ==
  /\ pc = "tick"
  /\ scheduled' = scheduled + 1
  /\ pc' = "fetch"
  /\ UNCHANGED <<dims, now, gameVars, fieldVars>>

\* e == '<ESC>' or e == 'q': the loop ends
Quit ==
  /\ pc = "key"
  /\ pc' = "done"
  /\ UNCHANGED <<dims, now, scheduled, gameVars, fieldVars>>

\* any other token goes to process_event
HandleKey(event) ==
  /\ pc = "key"
  /\ process_event(event)
  /\ pc' = "fetch"
  /\ UNCHANGED <<dims, now, scheduled>>

KeyClose == HandleKey("c")
KeyHelp == HandleKey("h")
KeyTest == HandleKey("t")
KeyNew == HandleKey("n")
KeySpace == HandleKey("<SPACE>")
KeyMove == \E event \in MoveKeys : HandleKey(event)
KeyFlag == HandleKey("f")
KeyOther == HandleKey("x")

Next ==
  \/ Elapse
  \/ FetchTick
  \/ FetchKey
  \/ HandleTick
  \/ Quit
  \/ KeyClose
  \/ KeyHelp
  \/ KeyTest
  \/ KeyNew
  \/ KeySpace
  \/ KeyMove
  \/ KeyFlag
  \/ KeyOther

Spec == Init /\ [][Next]_vars

\* ------------------------------------------- one Field object, by itself

\* Field(): a new Field, its methods called in any order by a caller, all
\* within one reading of the clock
InitField ==
  /\ width = FieldSize
  /\ height = FieldSize
  /\ now = 0
  /\ pc = "field"
  /\ scheduled = 0
  /\ field = 1
  /\ menu = MenuNone
  /\ menu_opened_at = None
  /\ \E mn \in MineLayouts :
       LET f == NewField(mn)
       IN  /\ row = f.row
           /\ col = f.col
           /\ mines = f.mines
           /\ flagged = f.flagged
           /\ opened = f.opened
           /\ highlighted = f.highlighted
           /\ chars = f.chars
           /\ started = f.started
           /\ ended = f.ended
           /\ stoppage_time = f.stoppage_time

callerVars == <<dims, now, pc, scheduled, gameVars>>

CallOpen == pc = "field" /\ open /\ UNCHANGED callerVars

CallMove ==
  /\ pc = "field"
  /\ \E drow \in {-1, 0, 1}, dcol \in {-1, 0, 1} :
       Abs(drow) + Abs(dcol) <= 1 /\ move(drow, dcol)
  /\ UNCHANGED callerVars

CallFlag == pc = "field" /\ flag /\ UNCHANGED callerVars

\* reading Field.won: the getter sets ended when it returns True
CallWon ==
  /\ pc = "field"
  /\ ended' = (IF won /\ ended = None THEN now ELSE ended)
  /\ UNCHANGED <<callerVars, row, col, mines, flagged, opened, highlighted, chars,
                 started, stoppage_time>>

\* reading Field.lost: the getter sets ended when it returns True
CallLost ==
  /\ pc = "field"
  /\ ended' = (IF lost /\ ended = None THEN now ELSE ended)
  /\ UNCHANGED <<callerVars, row, col, mines, flagged, opened, highlighted, chars,
                 started, stoppage_time>>

NextField ==
  \/ CallOpen
  \/ CallMove
  \/ CallFlag
  \/ CallWon
  \/ CallLost

SpecField == InitField /\ [][NextField]_vars

TypeOK ==
  /\ now \in 0 .. MaxTime
  /\ pc \in {"fetch", "tick", "key", "done", "field"}
  /\ field \in 0 .. 2
  /\ menu \in Menus \cup {MenuNone}
  /\ opened \subseteq Positions
  /\ flagged \subseteq Positions

\* ----------------------------------------------------------------- claims

AllSafeOpened == (Positions \ mines) \subseteq opened
NoMineOpened == mines \cap opened = {}

\* C1: in every reachable state of a Field, the win query (Field.won) is true
\* exactly when every non-mine cell is opened and no mine is opened.
C1_WonIffAllSafeOpenedAndNotLost ==
  field # 0 => (won <=> (AllSafeOpened /\ NoMineOpened))

\* the primary action opens the closed cursor cell, a mine, with no menu open
\* and the field not ended
OpensMineAtCursor ==
  /\ KeySpace
  /\ menu = MenuNone
  /\ field # 0
  /\ ended = None
  /\ <<row, col>> \notin opened
  /\ <<row, col>> \in mines

\* C2: when the primary action opens the closed cursor cell and it is a mine
\* (no menu open, field not ended), the next update pass sets the menu to Lost.
C2_OpenedMineGivesLost ==
  [][OpensMineAtCursor => update_menu' = "lost"]_vars

\* the primary action, with no menu open and the field not ended, leaves every
\* non-mine cell opened and no mine opened
CompletesBoard ==
  /\ KeySpace
  /\ menu = MenuNone
  /\ field # 0
  /\ ended = None
  /\ AllSafeOpened'
  /\ NoMineOpened'

\* C3: when a primary action (no menu open, field not ended) leaves every
\* non-mine cell opened and no mine opened, the next update pass sets the menu
\* to Won and sets ended.
C3_CompletedBoardGivesWon ==
  [][CompletesBoard => (update_menu' = "won" /\ update_ended' = now')]_vars

\* an update pass has just shown Won for a board with no mine opened
C3_Witness ==
  /\ pc \in {"key", "tick"}
  /\ menu = "won"
  /\ ended = now
  /\ AllSafeOpened
  /\ NoMineOpened

\* C4: while any menu is open, the move keys, the primary-action key and the
\* flag key leave cursor, opened, flagged and started as they were.
C4_MenuBlocksFieldKeys ==
  [][((KeySpace \/ KeyMove \/ KeyFlag) /\ menu # MenuNone)
       => UNCHANGED <<row, col, opened, flagged, started>>]_vars

\* C5 as stated: the modal state is always one of no-menu, Help,
\* ConfirmNewGame, Won and Lost.
C5_FiveModalStates ==
  menu \in {MenuNone, "help", "confirm_new", "won", "lost"}

\* C5 amended: the modal state is always one of no-menu, Help, ConfirmNewGame,
\* Won, Lost and the test menu of the "t" key.
C5_ModalStatesWithTest ==
  menu \in {MenuNone, "help", "confirm_new", "won", "lost", "test"}

\* the "t" key has opened the test menu and an update pass has drawn it
C5_Witness == menu = "test" /\ menu_opened_at # None

\* the same Field object with the attributes C6 and C7 name unchanged
SameField ==
  /\ field' = field
  /\ UNCHANGED <<mines, opened, flagged, row, col, started, ended>>

\* a Field as Field.__init__ leaves it
FreshField ==
  /\ mines \in MineLayouts
  /\ opened = {}
  /\ flagged = {}
  /\ row = StartRow
  /\ col = StartCol
  /\ started = None
  /\ ended = None
  /\ stoppage_time = 0

\* C6: a Field that has not ended is replaced only by a new-game key pressed
\* in ConfirmNewGame; a new-game key in any other state with an unended field
\* keeps the field and opens ConfirmNewGame; a new-game key with no field or
\* with an ended field creates a fresh field and closes any menu.
C6_NewGameNeedsConfirm ==
  [][/\ (field # 0 /\ ended = None /\ field' # field)
          => (KeyNew /\ menu = "confirm_new" /\ FreshField')
     /\ (KeyNew /\ field # 0 /\ ended = None /\ menu # "confirm_new")
          => (SameField /\ menu' = "confirm_new")
     /\ (KeyNew /\ (field = 0 \/ ended # None))
          => (field' \notin {0, field} /\ FreshField' /\ menu' = MenuNone)]_vars

\* the new-game key has put the confirmation over a game in progress
C6_Witness ==
  /\ menu = "confirm_new"
  /\ field # 0
  /\ ended = None
  /\ opened # {}

\* the confirmation is up over an unended field
ConfirmPending == menu = "confirm_new" /\ field # 0 /\ ended = None

\* C7: from Playing with an unended field, new-game then close, with any
\* number of ticks in between, ends with no menu open and the same Field with
\* mines, opened, flagged, cursor, started and ended as before the new-game
\* key.  Step by step: the new-game key opens the confirmation and keeps the
\* field; while the confirmation is up, time, ticks and the update pass before
\* the next key keep both; the close key closes the menu and keeps the field.
C7_ConfirmThenCloseKeepsGame ==
  [][/\ (KeyNew /\ menu = MenuNone /\ field # 0 /\ ended = None)
          => (SameField /\ menu' = "confirm_new")
     /\ (ConfirmPending /\ (Elapse \/ FetchTick \/ HandleTick \/ FetchKey))
          => (SameField /\ menu' = "confirm_new")
     /\ (ConfirmPending /\ KeyClose)
          => (SameField /\ menu' = MenuNone)]_vars

\* the confirmation over a started game has been shown by an update pass, and
\* the next key is about to be handled
C7_Witness ==
  /\ pc = "key"
  /\ ConfirmPending
  /\ menu_opened_at # None
  /\ started # None

\* a started Field that has not ended
Live == field # 0 /\ started # None /\ ended = None

\* what game_time was when the open menu was first seen by update()
PausedClock == menu_opened_at - started - stoppage_time

UpdatePass == FetchKey \/ FetchTick

\* C8: for a started, unended Field, elapsed() in the update pass that first
\* sees the menu closed equals elapsed() in the update pass that first saw it
\* open, whatever happened in between; before the first reveal elapsed() is 0.
\* Step by step: the pass that first sees a menu records menu_opened_at with
\* PausedClock equal to the elapsed time of that pass; no step on the same
\* field changes PausedClock while menu_opened_at is set; the pass that sees
\* the menu closed leaves game_time equal to PausedClock.
C8_PauseFreezesClock ==
  /\ [](field # 0 /\ opened = {} => game_time(now) = 0)
  /\ [][/\ (UpdatePass /\ Live /\ menu # MenuNone /\ menu_opened_at = None)
             => PausedClock' = game_time(now)
        /\ (Live /\ menu_opened_at # None /\ menu_opened_at' # None /\ field' = field)
             => PausedClock' = PausedClock
        /\ (UpdatePass /\ Live /\ menu = MenuNone /\ menu_opened_at # None)
             => game_time(now)' = PausedClock]_vars

\* an update pass has charged a pause of non-zero length to a running game
C8_Witness ==
  /\ pc \in {"key", "tick"}
  /\ Live
  /\ menu = MenuNone
  /\ menu_opened_at = None
  /\ stoppage_time > 0
  /\ game_time(now) > 0

\* C9: for each Field, ended is unset until the first update pass that sees a
\* win or a loss, and once set it never changes.
C9_EndedSetOnce ==
  [][(field # 0 /\ field' = field)
       => /\ ended # None => ended' = ended
          /\ (ended = None /\ ended' # None)
               => (UpdatePass /\ (won \/ lost) /\ ended' = now)]_vars

\* ended was set at an earlier time and keys and ticks have come since
C9_Witness ==
  /\ field # 0
  /\ ended # None
  /\ ended < now
  /\ menu = MenuNone

\* Field.open on a cursor cell that is already opened: the chord-clear
ChordAtCursor == CallOpen /\ <<row, col>> \in opened

Highlighted == {p \in Positions : chars[p].fg}

\* C10: chord-clear on an opened cell pos: if the number of flagged neighbours
\* equals the count shown at pos, every neighbour not flagged is opened
\* afterwards; otherwise opened is unchanged and highlighted, when clear_at
\* returns (as the render that follows draws it), is the neighbours that are
\* neither flagged nor opened.  flagged is unchanged either way.
C10_ChordClear ==
  [][ChordAtCursor =>
       LET pos == <<row, col>>
           shown == symbol_at(pos, opened, flagged, mines)
           nbflagged == neighbors(pos) \cap flagged
       IN  /\ flagged' = flagged
           /\ IF shown.kind = "int" /\ Cardinality(nbflagged) = shown.n
                THEN (neighbors(pos) \ flagged) \subseteq opened'
                ELSE /\ opened' = opened
                     /\ Highlighted' = (neighbors(pos) \ flagged) \ opened]_vars

\* a chord-clear that could not resolve has highlighted cells, on a board with
\* a flag on an opened cell
C10_Witness ==
  /\ Highlighted # {}
  /\ <<row, col>> \in opened
  /\ flagged \cap opened # {}

RECURSIVE RegionFrom(_, _)
\* the least set containing R and every neighbour of each zero-count cell in it
RegionFrom(R, mn) ==
  LET more == R \cup UNION {neighbors(p) : p \in {q \in R : neighbor_mines(q, mn) = 0}}
  IN  IF more = R THEN R ELSE RegionFrom(more, mn)

Region(pos, mn) == RegionFrom({pos}, mn)

\* Field.open on a cursor cell that is closed and holds no mine
OpensSafeAtCursor ==
  /\ CallOpen
  /\ <<row, col>> \notin opened
  /\ <<row, col>> \notin mines

\* C11: open_at on a closed cell pos without a mine adds to opened exactly the
\* cells of the region of pos (the least set containing pos and every
\* neighbour of each zero-count cell in it); it adds no mine; when the count
\* of pos is not zero it opens pos alone.
C11_RevealRegion ==
  [][OpensSafeAtCursor =>
       LET pos == <<row, col>>
       IN  /\ opened' = opened \cup Region(pos, mines)
           /\ (opened' \ opened) \cap mines = {}
           /\ neighbor_mines(pos, mines) # 0 => opened' = opened \cup {pos}]_vars

\* a cascade from the zero cell under the cursor has opened its neighbours and
\* stopped short of other safe cells
C11_Witness ==
  /\ <<row, col>> \in opened
  /\ neighbor_mines(<<row, col>>, mines) = 0
  /\ neighbors(<<row, col>>) \subseteq opened
  /\ opened \cap mines = {}
  /\ (Positions \ mines) \ opened # {}

\* the coordinate after a step of d along an axis of the given length: the
\* step is taken when it stays on the axis and dropped otherwise
StepOnAxis(at, d, length) == IF at + d \in 0..(length - 1) THEN at + d ELSE at

\* C12: the cursor is always a cell of the board; a move puts each coordinate
\* one step along its axis when that stays on the board and leaves it as it
\* is otherwise; move(0, 0) changes nothing at all.
C12_CursorStaysOnBoard ==
  /\ [](row \in 0..(height - 1) /\ col \in 0..(width - 1))
  /\ [][\A drow \in {-1, 0, 1}, dcol \in {-1, 0, 1} :
         (/\ Abs(drow) + Abs(dcol) <= 1
          /\ pc = "field"
          /\ move(drow, dcol)
          /\ UNCHANGED callerVars)
           => /\ row' = StepOnAxis(row, drow, height)
              /\ col' = StepOnAxis(col, dcol, width)
              /\ (drow = 0 /\ dcol = 0) => UNCHANGED vars]_vars

\* the cursor has been driven into the corner where the row is lowest and the
\* column is highest, on a board in play
C12_Witness ==
  /\ row = 0
  /\ col = width - 1
  /\ chars[<<0, width - 1>>].bg
  /\ opened # {}

\* C13: every Field has exactly mine_count mines, all of them cells of the
\* board, from the end of its construction on; no step changes the mines of
\* a Field that stays in place.
C13_MinesFixed ==
  /\ [](field # 0 => (mines \subseteq Positions /\ Cardinality(mines) = mine_count))
  /\ [][(field # 0 /\ field' = field) => mines' = mines]_vars

\* a Field that was moved on, flagged, opened, paused behind a menu and ended
C13_Witness ==
  /\ field # 0
  /\ <<row, col>> # <<StartRow, StartCol>>
  /\ flagged # {}
  /\ opened # {}
  /\ stoppage_time > 0
  /\ ended # None

\* the Ticks that are scheduled or delivered and not yet handled
TicksOutstanding == scheduled + (IF pc = "tick" THEN 1 ELSE 0)

\* C14: at every point at most one Tick is scheduled and not yet handled;
\* handling a Tick schedules exactly one Tick; handling a key, the quit key
\* included, schedules none.
C14_OneTickOutstanding ==
  /\ [](TicksOutstanding <= 1)
  /\ [][HandleTick => scheduled' = scheduled + 1]_vars
  /\ [][(Quit \/ \E event \in Keys : HandleKey(event)) => scheduled' = scheduled]_vars

\* a Tick delivered in the middle of a game, after time has passed, with its
\* successor not yet scheduled
C14_Witness ==
  /\ pc = "tick"
  /\ scheduled = 0
  /\ now > 0
  /\ field # 0
  /\ opened # {}

EndMenus == {"won", "lost"}

\* C15: while the menu is Won or Lost a Field exists and its ended is set;
\* the menu becomes Won or Lost only in an update pass, which sets ended in
\* the same pass; the Field is not removed or replaced while the menu stays
\* Won or Lost.
C15_EndMenuHasEndedField ==
  /\ [](menu \in EndMenus => (field # 0 /\ ended # None))
  /\ [][(menu' \in EndMenus /\ menu' # menu)
         => (UpdatePass /\ ended = None /\ ended' = now')]_vars
  /\ [][(menu \in EndMenus /\ menu' = menu) => field' = field]_vars

\* the Lost menu still up, keys and time after the pass that raised it
C15_Witness ==
  /\ menu = "lost"
  /\ pc = "key"
  /\ ended # None
  /\ ended < now
  /\ <<row, col>> \notin opened

\* the buffer that shows the state as it is: the open menu, or else the field
BufferOfState ==
  IF menu # MenuNone
    THEN [menu |-> menu, field |-> NoChars]
    ELSE IF field # 0
      THEN [menu |-> MenuNone, field |-> chars]
      ELSE [menu |-> MenuNone, field |-> NoChars]

\* C16: for every key event the transition of the event is applied first and
\* the update pass for the event runs after it, so the buffer handed to the
\* terminal while the event is handled shows the state the event left.
C16_BufferReflectsEvent ==
  [][(\E event \in Keys : HandleKey(event))
       => render_to_terminal = BufferOfState']_vars

\* C17, as the spec words it: a render pass empties highlighted before it
\* computes any glyph, so no glyph of any pass is drawn highlighted, and
\* highlighted is empty when the pass ends.
C17_ResetBeforeGlyphs == highlighted = {} /\ Highlighted = {}

\* C17: a render pass computes every glyph from highlighted as the caller
\* left it and empties highlighted at the end of the pass: highlighted is
\* empty after every pass, the pass that follows a chord-clear that could not
\* resolve draws the cells clear_at highlighted, and the pass of any other
\* operation draws no cell highlighted.
C17_HighlightDrawnThenReset ==
  /\ [](highlighted = {})
  /\ [][ChordAtCursor =>
         LET pos == <<row, col>>
             shown == symbol_at(pos, opened, flagged, mines)
             nbflagged == neighbors(pos) \cap flagged
         IN  Highlighted' = (IF shown.kind = "int" /\ Cardinality(nbflagged) = shown.n
                               THEN {}
                               ELSE (neighbors(pos) \ flagged) \ opened)]_vars
  /\ [][(CallFlag \/ (CallMove /\ <<row', col'>> # <<row, col>>)
                   \/ (CallOpen /\ <<row, col>> \notin opened))
         => Highlighted' = {}]_vars

\* the last pass drew two or more cells highlighted and left highlighted empty
C17_Witness ==
  /\ Cardinality(Highlighted) >= 2
  /\ highlighted = {}

\* Field.open on a cursor cell that is closed: open_at runs from the cursor
OpensClosedAtCursor == CallOpen /\ <<row, col>> \notin opened

\* the bookkeeping of the open_at run that Field.open starts at the cursor
CascadeAtCursor == open_at(<<row, col>>, NoCalls(opened), flagged, mines, 1)

\* C18, as the spec words it: open_at returns after finitely many calls and
\* makes a recursive call only on a cell that is not opened at the call.
C18_DescendsOnlyIntoClosed ==
  [][OpensClosedAtCursor =>
       /\ opened' = CascadeAtCursor.opened
       /\ ~CascadeAtCursor.overflow
       /\ CascadeAtCursor.revisits = 0]_vars

\* C18: open_at returns, for every layout and every opened set, after finitely
\* many calls: each cell it opens is opened by exactly one call, the nesting
\* is never deeper than the number of cells it opens, and a call on a cell
\* that another call has opened in the meantime (the neighbours are fixed
\* when the loop over them starts) makes no further call.
C18_CascadeTerminates ==
  [][OpensClosedAtCursor =>
       LET t == CascadeAtCursor
           fresh == Cardinality(opened' \ opened)
       IN  /\ opened' = t.opened
           /\ ~t.overflow
           /\ t.calls - t.revisits = fresh
           /\ t.calls <= 1 + 8 * fresh
           /\ t.deepest <= fresh
           /\ t.redescents = 0]_vars

\* a cascade from the zero cell under the cursor has run over a flagged cell
\* and opened six cells or more
C18_Witness ==
  /\ <<row, col>> \in opened
  /\ neighbor_mines(<<row, col>>, mines) = 0
  /\ <<row, col>> \notin mines
  /\ flagged \cap opened # {}
  /\ Cardinality(opened) >= 6

\* C19: the game clock is never negative: for a started Field the stoppage
\* charged to it never exceeds the time from started to ended, or to now
\* while the Field has not ended.
C19_ClockNeverNegative ==
  (field # 0 /\ started # None)
    => stoppage_time <= (IF ended # None THEN ended ELSE now) - started

\* C20: the Won or Lost menu is entered at most once for a Field: it is
\* entered only while the Field's ended is unset, by a step that sets it, and
\* once ended is set no tick and no key makes the menu Won or Lost again for
\* as long as that Field is in place.
C20_EndMenuOncePerField ==
  /\ [][(menu' \in EndMenus /\ menu' # menu) => (ended = None /\ ended' # None)]_vars
  /\ [][(field # 0 /\ field' = field /\ ended # None)
         => (menu' \in EndMenus => menu' = menu)]_vars

\* an update pass has just run, later than the end of the game, over a Field
\* that has ended and whose end menu was dismissed, and left no menu open
C20_Witness ==
  /\ pc = "tick"
  /\ field # 0
  /\ ended # None
  /\ ended < now
  /\ won \/ lost
  /\ menu = MenuNone

====
